---- MODULE Spec2Model ----
(***************************************************************************)
(* A state-machine model of the Mollusk test harness:                      *)
(*   harness/src/lib.rs      Mollusk, process_instruction,                 *)
(*                           process_and_validate_instruction              *)
(*   harness/src/program.rs  ProgramCache, BUILTINS, program accounts      *)
(*                                                                         *)
(* Sequences are 1-based here; every index the source stores (u16 fields   *)
(* of InstructionAccount, PROGRAM_INDICES) keeps its 0-based value, and    *)
(* At0 reads a sequence at such an index.                                  *)
(***************************************************************************)
EXTENDS Integers, Sequences, FiniteSets, TLC

\* ------------------------------------------------------------------ bounds

\* Cap on the usage statistic the VM keeps in the cache (a u64 in the VM).
MaxUsage == 2
\* Highest slot warp_to_slot is called with.
MaxSlot == 1

\* The threads that share one harness through &Mollusk.  Every property below
\* is about one call or about a pair of calls.
Threads == {1, 2}

\* ------------------------------------------------------- program constants

PROGRAM_ACCOUNTS_LEN == 1
PROGRAM_INDICES == <<0>>
\* `i as u16`
U16 == 65536

\* Identities (Pubkey values).
system_program_id == "system_program_id"
bpf_loader_id == "bpf_loader_id"
bpf_loader_upgradeable_id == "bpf_loader_upgradeable_id"
native_loader_id == "native_loader_id"

\* Option values: <<>> is None, <<x>> is Some(x).
None == <<>>
Some(x) == <<x>>

At0(seq, i) == seq[i + 1]

\* ------------------------------------------------------------- program.rs

\* The static BUILTINS table, in source order.
BUILTINS ==
  << [program_id |-> system_program_id,
      name |-> "system_program",
      entrypoint |-> "system_processor"],
     [program_id |-> bpf_loader_id,
      name |-> "solana_bpf_loader_program",
      entrypoint |-> "bpf_loader"],
     [program_id |-> bpf_loader_upgradeable_id,
      name |-> "solana_bpf_loader_upgradeable_program",
      entrypoint |-> "bpf_loader"] >>

\* str::len of the builtin names above.
NameLen(name) ==
  CASE name = "system_program" -> 14
    [] name = "solana_bpf_loader_program" -> 25
    [] name = "solana_bpf_loader_upgradeable_program" -> 37
    [] OTHER -> 6

\* Rent::default().minimum_balance(len): (128 + len) * 3480 * 2.
minimum_balance(len) == (128 + len) * 6960

\* Builtin::program_cache_entry: ProgramCacheEntry::new_builtin(0, name.len(), entrypoint).
program_cache_entry(builtin) ==
  [kind |-> "builtin",
   deployment_slot |-> 0,
   account_size |-> NameLen(builtin.name),
   program |-> builtin.entrypoint,
   loader |-> native_loader_id]

\* builtin_program_account(program_id, name)
builtin_program_account(program_id, name) ==
  << program_id,
     [lamports |-> minimum_balance(NameLen(name)),
      data |-> name,
      owner |-> native_loader_id,
      executable |-> TRUE,
      rent_epoch |-> 0] >>

\* Indexes BUILTINS[0] in the source.
system_program ==
  builtin_program_account(At0(BUILTINS, 0).program_id, At0(BUILTINS, 0).name)

\* Indexes BUILTINS[1] in the source, i.e. the second entry of the table.
bpf_loader_upgradeable_program ==
  builtin_program_account(At0(BUILTINS, 1).program_id, At0(BUILTINS, 1).name)

\* program_account(program_id): a BPF Loader Upgradeable program account.  The
\* data is the serialized UpgradeableLoaderState::Program (36 bytes) naming the
\* programdata address derived from program_id.
program_account(program_id) ==
  [lamports |-> minimum_balance(36),
   data |-> "UpgradeableLoaderState::Program",
   owner |-> bpf_loader_upgradeable_id,
   executable |-> TRUE,
   rent_epoch |-> 0]

\* Bytecode images handed to add_program; "malformed" fails verification.
Elfs == {"elf1", "elf2", "malformed"}

ElfLen(elf) ==
  CASE elf = "elf1" -> 4 [] elf = "elf2" -> 5 [] OTHER -> 3

\* ProgramCacheEntry::new(loader_key, environment, 0, 0, elf, elf.len(), metrics):
\* Some(entry) for a verifiable image, None for the Err the source unwraps.
ProgramCacheEntry_new(loader_key, elf) ==
  IF elf = "malformed"
    THEN None
    ELSE Some([kind |-> "loaded",
               deployment_slot |-> 0,
               account_size |-> ElfLen(elf),
               program |-> elf,
               loader |-> loader_key])

\* Identities that key the cache in this model: the builtins and one program.
user_program_id == "P"
CacheKeys ==
  {system_program_id, bpf_loader_id, bpf_loader_upgradeable_id, user_program_id}

\* A replenish that keeps an existing entry (insert-if-absent).
replenish_first_wins(entries, key, entry) ==
  IF entries[key] = None THEN [entries EXCEPT ![key] = Some(entry)] ELSE entries

\* ProgramCacheForTxBatch::replenish(key, entry): insert or replace.
replenish(entries, key, entry) == [entries EXCEPT ![key] = Some(entry)]

\* ProgramCacheForTxBatch::default(): no entries, fresh statistics.
ProgramCacheForTxBatch_default ==
  [entries |-> [k \in CacheKeys |-> None], usage |-> 0]

RECURSIVE ReplenishBuiltins(_, _)
ReplenishBuiltins(c, i) ==
  IF i > Len(BUILTINS)
    THEN c
    ELSE ReplenishBuiltins(
           [c EXCEPT !.entries =
              replenish(c.entries, BUILTINS[i].program_id,
                        program_cache_entry(BUILTINS[i]))],
           i + 1)

\* impl Default for ProgramCache: every builtin replenished, in table order.
ProgramCache_default == ReplenishBuiltins(ProgramCacheForTxBatch_default, 1)

\* ProgramCache::add_program on an unheld lock (the runtime environment of
\* lines 54-57 is built from the harness's own budget and feature set and is
\* taken to succeed).  write().unwrap() panics on a
\* poisoned lock.  Otherwise the guard is taken first (it is the receiver of
\* replenish) and the entry is built while it is held: when
\* ProgramCacheEntry::new(..).unwrap() panics, unwinding drops the guard and
\* poisons the lock.  Result: the cache, the poison flag, and whether the call
\* returned.
add_program(c, isPoisoned, program_id, loader_key, elf) ==
  LET entry == ProgramCacheEntry_new(loader_key, elf) IN
  IF isPoisoned
    THEN [cache |-> c, poisoned |-> TRUE, returned |-> FALSE]
    ELSE IF entry = None
      THEN [cache |-> c, poisoned |-> TRUE, returned |-> FALSE]
      ELSE [cache |-> [c EXCEPT !.entries = replenish(c.entries, program_id, entry[1])],
            poisoned |-> FALSE, returned |-> TRUE]

\* ProgramCache::add_builtin
add_builtin(c, isPoisoned, builtin) ==
  IF isPoisoned
    THEN [cache |-> c, poisoned |-> TRUE, returned |-> FALSE]
    ELSE [cache |-> [c EXCEPT !.entries =
                       replenish(c.entries, builtin.program_id,
                                 program_cache_entry(builtin))],
          poisoned |-> FALSE, returned |-> TRUE]

\* ----------------------------------------------------------------- lib.rs

\* impl Default for Mollusk (the cache is the variable `cache`).
ComputeBudget_default ==
  [compute_unit_limit |-> 1400000,
   max_instruction_stack_depth |-> 5,
   max_instruction_trace_length |-> 64]

Mollusk_default ==
  [compute_budget |-> ComputeBudget_default,
   feature_set |-> "all_enabled",
   fee_structure |-> [lamports_per_signature |-> 5000],
   program_account |-> system_program[2],
   program_id |-> system_program[1],
   sysvars |-> [slot |-> 0]]

\* Mollusk::new(program_id, program_name), before its add_program call.
Mollusk_new(program_id) ==
  [Mollusk_default EXCEPT !.program_id = program_id,
                          !.program_account = program_account(program_id)]

\* The closure of process_instruction's map over instruction.accounts, i the
\* 0-based position from enumerate().
InstructionAccount(i, meta) ==
  [index_in_callee |-> i % U16,
   index_in_caller |-> i % U16,
   index_in_transaction |-> (i + PROGRAM_ACCOUNTS_LEN) % U16,
   is_signer |-> meta.is_signer,
   is_writable |-> meta.is_writable]

\* instruction.accounts.iter().enumerate().map(..).collect()
instruction_accounts_of(metas) ==
  [k \in 1..Len(metas) |-> InstructionAccount(k - 1, metas[k])]

\* [(self.program_id, self.program_account.clone())].iter().chain(accounts).cloned()
transaction_accounts_of(m, accounts) ==
  << <<m.program_id, m.program_account>> >> \o accounts

\* TransactionContext::new(transaction_accounts, rent, depth, trace length)
TransactionContext_new(transaction_accounts, budget) ==
  [accounts |-> transaction_accounts,
   instruction_stack_capacity |-> budget.max_instruction_stack_depth,
   instruction_trace_capacity |-> budget.max_instruction_trace_length]

\* deconstruct_without_keys(): the accounts of the table, in table order.
deconstruct_without_keys(ctx) ==
  [k \in 1..Len(ctx.accounts) |-> ctx.accounts[k][2]]

Min(a, b) == IF a < b THEN a ELSE b

\* .into_iter().skip(PROGRAM_ACCOUNTS_LEN).zip(instruction.accounts.iter())
\*  .map(|(account, meta)| (meta.pubkey, account)).collect()
\* zip stops at the shorter of the two.
resulting_accounts_of(ctx, metas) ==
  LET accts == deconstruct_without_keys(ctx)
      rest == SubSeq(accts, PROGRAM_ACCOUNTS_LEN + 1, Len(accts))
  IN [k \in 1..Min(Len(rest), Len(metas)) |-> <<metas[k].pubkey, rest[k]>>]

\* ------------------------------------------------ the VM behind the harness
\* InvokeContext::process_instruction is an external collaborator.  It is
\* modelled by its contract: it returns Ok or a typed InstructionError, it
\* mutates only the account copies of the transaction context it is given,
\* it updates the usage statistics of the cache it holds mutably, and its
\* outcome is a function of the entries it resolves, the environment and its
\* inputs.  Programs: the system program's transfer, and a bytecode program
\* whose image decides the amount it moves.

Ok == [ok |-> TRUE, err |-> ""]
Err(e) == [ok |-> FALSE, err |-> e]

\* Lamports the instruction data asks to move.
Amount(data) == IF data = "transfer 1" THEN 1 ELSE 3

\* Compute units charged when the program is entered.
ComputeCost == [system_processor |-> 150, elf1 |-> 300, elf2 |-> 300]

\* The entry the runtime dispatches to for the program at table index
\* program_indices[0], and the behaviour ("" on failure) it selects.
VmResolve(c, table, program_indices) ==
  LET program == At0(table, program_indices[1])
      key == program[1]
      owner == program[2].owner
      builtin_id == IF owner = native_loader_id THEN key ELSE owner
      known(id) == id \in CacheKeys /\ c.entries[id] # None
  IN IF ~known(builtin_id) \/ c.entries[builtin_id][1].kind # "builtin"
       THEN [err |-> "UnsupportedProgramId", behaviour |-> ""]
     ELSE IF c.entries[builtin_id][1].program = "system_processor"
       THEN [err |-> "", behaviour |-> "system_processor"]
     ELSE IF ~known(key)
       THEN [err |-> "InvalidAccountData", behaviour |-> ""]
     ELSE IF c.entries[key][1].kind # "loaded"
       THEN [err |-> "IncorrectProgramId", behaviour |-> ""]
     ELSE [err |-> "", behaviour |-> c.entries[key][1].program]

\* A transfer of n lamports from instruction account 0 to instruction
\* account 1, on the account copies of the table.
VmTransfer(table, ias, n) ==
  IF Len(ias) < 2 THEN [result |-> Err("NotEnoughAccountKeys"), accounts |-> table]
  ELSE
    LET from == ias[1].index_in_transaction + 1
        to == ias[2].index_in_transaction + 1
    IN IF ~ias[1].is_signer
         THEN [result |-> Err("MissingRequiredSignature"), accounts |-> table]
       ELSE IF table[from][2].lamports < n
         THEN [result |-> Err("Custom(1)"), accounts |-> table]
       ELSE IF ~ias[1].is_writable \/ ~ias[2].is_writable
         THEN [result |-> Err("ReadonlyLamportChange"), accounts |-> table]
       ELSE
         LET debited == [table EXCEPT ![from][2].lamports = @ - n]
         IN [result |-> Ok,
             accounts |-> [debited EXCEPT ![to][2].lamports = @ + n]]

\* InvokeContext::new(&mut transaction_context, &mut cache, environment, None,
\*   compute_budget).process_instruction(data, instruction_accounts,
\*   program_indices, &mut compute_units_consumed, &mut timings)
VmProcessInstruction(c, ctx, data, ias, program_indices, budget) ==
  LET table == ctx.accounts
      resolved == VmResolve(c, table, program_indices)
      used == [c EXCEPT !.usage = @ + 1]
  IN IF \E k \in 1..Len(ias) : ias[k].index_in_transaction >= Len(table)
       THEN [result |-> Err("NotEnoughAccountKeys"), accounts |-> table,
             consumed |-> 0, cache |-> c]
     ELSE IF resolved.err # ""
       THEN [result |-> Err(resolved.err), accounts |-> table,
             consumed |-> 0, cache |-> used]
     ELSE IF budget.compute_unit_limit < ComputeCost[resolved.behaviour]
       THEN [result |-> Err("ComputationalBudgetExceeded"), accounts |-> table,
             consumed |-> budget.compute_unit_limit, cache |-> used]
     ELSE
       LET n == IF resolved.behaviour = "elf2" THEN Amount(data) + 1 ELSE Amount(data)
           out == VmTransfer(table, ias, n)
       IN [result |-> out.result, accounts |-> out.accounts,
           consumed |-> ComputeCost[resolved.behaviour], cache |-> used]

\* --------------------------------------------------------------- result.rs

\* From<Result<(), InstructionError>> for ProgramResult
ProgramResult_from(invoke_result) ==
  IF invoke_result.ok
    THEN [kind |-> "Success", err |-> ""]
    ELSE [kind |-> "Failure", err |-> invoke_result.err]

\* An InstructionResult that reports success whatever the VM returned.
InstructionResult_ignoring_error(consumed, us, invoke_result, resulting) ==
  [compute_units_consumed |-> consumed,
   execution_time |-> us,
   program_result |-> ProgramResult_from(Ok),
   resulting_accounts |-> resulting]

\* The InstructionResult literal that ends process_instruction.
InstructionResult_of(consumed, us, invoke_result, resulting) ==
  [compute_units_consumed |-> consumed,
   execution_time |-> us,
   program_result |-> ProgramResult_from(invoke_result),
   resulting_accounts |-> resulting]

\* One Check against a result: Check::success() and Check::err(..).
CheckPasses(check, r) ==
  CASE check = "success" -> r.program_result.kind = "Success"
    [] check = "failure" -> r.program_result.kind = "Failure"
    [] OTHER -> FALSE

\* InstructionResult::run_checks: TRUE when no check fails (it panics otherwise).
run_checks(r, checks) == \A k \in 1..Len(checks) : CheckPasses(checks[k], r)

\* ------------------------------------------------------------------ inputs

KeyA == "A"
KeyB == "B"

Account(lamports) ==
  [lamports |-> lamports, data |-> "", owner |-> system_program_id,
   executable |-> FALSE, rent_epoch |-> 0]

Meta(pubkey, is_signer, is_writable) ==
  [pubkey |-> pubkey, is_signer |-> is_signer, is_writable |-> is_writable]

\* Caller account lists: two accounts, or one.
AccountLists ==
  { << <<KeyA, Account(2)>>, <<KeyB, Account(0)>> >>,
    << <<KeyA, Account(2)>> >> }

\* Account-meta lists: in the callers' order, swapped, and shorter.
MetaLists ==
  { << Meta(KeyA, TRUE, TRUE), Meta(KeyB, FALSE, TRUE) >>,
    << Meta(KeyB, FALSE, TRUE), Meta(KeyA, TRUE, TRUE) >>,
    << Meta(KeyA, TRUE, TRUE) >> }

\* An account-meta list one longer than the range of the u16 index fields:
\* its positions run from 0 to 65536.
LongMetas == [k \in 1..(U16 + 1) |-> Meta(IF k = 1 THEN KeyA ELSE KeyB, k = 1, TRUE)]

Datas == {"transfer 1", "transfer 3"}

CheckLists == { <<"success">> }

Apis == {"process_instruction", "process_and_validate_instruction"}

\* Builtins handed to add_builtin: those of the table, and one registered
\* under the user program's identity.
BuiltinInputs ==
  { BUILTINS[k] : k \in 1..Len(BUILTINS) } \cup
  { [program_id |-> user_program_id, name |-> "custom",
     entrypoint |-> "system_processor"] }

Loaders == {bpf_loader_upgradeable_id}

\* ------------------------------------------------------------------- state

VARIABLES
  mollusk,                \* the Mollusk struct, its cache aside
  cache,                  \* the ProgramCacheForTxBatch inside the RwLock
  poisoned,               \* the RwLock's poison flag
  writer,                 \* the threads holding the RwLock's write guard
  add_failed,             \* history: an add call panicked on a malformed image
  last_added,             \* history: per identity, the entry given by the last
                          \* add that returned (at first: by construction)
  pc,                     \* per thread: position in the call
  api,                    \* per thread: the method called
  instruction,            \* per thread: the caller's instruction
  accounts,               \* per thread: the caller's account list
  checks,                 \* per thread: the caller's checks
  instruction_accounts,   \* per thread: local of process_instruction
  transaction_context,    \* per thread: local of process_instruction
  invoke_result,          \* per thread: local of process_instruction (Option)
  compute_units_consumed, \* per thread: local of process_instruction
  timings,                \* per thread: local of process_instruction (execute_us)
  result                  \* per thread: the InstructionResult (Option)

harness == <<mollusk, cache, poisoned, writer, add_failed, last_added>>
inputs == <<api, instruction, accounts, checks>>
locals == <<instruction_accounts, transaction_context, invoke_result,
            compute_units_consumed, timings, result>>
vars == <<harness, pc, inputs, locals>>

NoInstruction == [program_id |-> "", accounts |-> <<>>, data |-> ""]
NoContext ==
  [accounts |-> <<>>, instruction_stack_capacity |-> 0,
   instruction_trace_capacity |-> 0]

\* A harness from Mollusk::default(), or from Mollusk::new(P, name) with a
\* well-formed image (new adds the program to the cache).
Init ==
  /\ \/ /\ mollusk = Mollusk_default
        /\ cache = ProgramCache_default
     \/ /\ mollusk = Mollusk_new(user_program_id)
        /\ cache = add_program(ProgramCache_default, FALSE, user_program_id,
                               bpf_loader_upgradeable_id, "elf1").cache
  /\ poisoned = FALSE
  /\ writer = {}
  /\ add_failed = FALSE
  /\ last_added = cache.entries
  /\ pc = [t \in Threads |-> "idle"]
  /\ api = [t \in Threads |-> "process_instruction"]
  /\ instruction = [t \in Threads |-> NoInstruction]
  /\ accounts = [t \in Threads |-> <<>>]
  /\ checks = [t \in Threads |-> <<>>]
  /\ instruction_accounts = [t \in Threads |-> <<>>]
  /\ transaction_context = [t \in Threads |-> NoContext]
  /\ invoke_result = [t \in Threads |-> None]
  /\ compute_units_consumed = [t \in Threads |-> 0]
  /\ timings = [t \in Threads |-> 0]
  /\ result = [t \in Threads |-> None]

\* ----------------------------------------------------------------- actions

\* &mut self methods need the harness unborrowed: no call is in flight.
AllIdle == \A t \in Threads : pc[t] = "idle"

\* Calls that will still reach the VM.
Pending == {t \in Threads : pc[t] \in {"built", "invoking"}}

\* Measured execution times (timings.details.execute_us).
ExecutionTimes == {0, 1}

\* The guard dereferences to the harness's own cache: what the VM did to it
\* through `&mut cache` is what the harness keeps.
cache_after_invoke(before, after) == after

\* A write guard that is still held after the block.
guard_kept(w, t) == w

\* The guard is a local of the block that ends at line 208: it is dropped there.
guard_after_block(w, t) == w \ {t}

\* Caller accounts that alias the accounts of the transaction context.
caller_accounts_aliased(accts, table) ==
  [k \in 1..Len(accts) |-> <<accts[k][1], table[k + PROGRAM_ACCOUNTS_LEN][2]>>]

\* `accounts` is a shared slice and the context holds clones of its elements:
\* the caller's list after the call is the list before it.
caller_accounts_after(accts, table) == accts

\* process_instruction, lines 156-183: the locals built before the lock.
Call(t, a, metas, accts, data, cks) ==
  /\ pc[t] = "idle"
  /\ cache.usage + Cardinality(Pending) < MaxUsage
  /\ api' = [api EXCEPT ![t] = a]
  /\ instruction' = [instruction EXCEPT ![t] =
       [program_id |-> mollusk.program_id, accounts |-> metas, data |-> data]]
  /\ accounts' = [accounts EXCEPT ![t] = accts]
  /\ checks' = [checks EXCEPT ![t] =
       IF a = "process_and_validate_instruction" THEN cks ELSE <<>>]
  /\ compute_units_consumed' = [compute_units_consumed EXCEPT ![t] = 0]
  /\ timings' = [timings EXCEPT ![t] = 0]
  /\ instruction_accounts' = [instruction_accounts EXCEPT ![t] =
       instruction_accounts_of(metas)]
  /\ transaction_context' = [transaction_context EXCEPT ![t] =
       TransactionContext_new(transaction_accounts_of(mollusk, accts),
                              mollusk.compute_budget)]
  /\ pc' = [pc EXCEPT ![t] = "built"]
  /\ UNCHANGED <<harness, invoke_result, result>>

\* line 186: self.program_cache.cache().write().unwrap().  write() blocks while
\* the lock is held; on a poisoned lock it returns Err and unwrap panics (the
\* guard inside the error is dropped at once).
Acquire(t) ==
  /\ pc[t] = "built"
  /\ writer = {}
  /\ IF poisoned
       THEN /\ pc' = [pc EXCEPT ![t] = "panicked_lock"]
            /\ UNCHANGED writer
       ELSE /\ pc' = [pc EXCEPT ![t] = "invoking"]
            /\ writer' = writer \cup {t}
  /\ UNCHANGED <<mollusk, cache, poisoned, add_failed, last_added, inputs, locals>>

\* lines 187-208: the VM invocation under the guard, and the end of the block.
Invoke(t) ==
  /\ pc[t] = "invoking"
  /\ \E us \in ExecutionTimes :
       LET out == VmProcessInstruction(cache, transaction_context[t],
                    instruction[t].data, instruction_accounts[t],
                    PROGRAM_INDICES, mollusk.compute_budget)
       IN /\ cache' = cache_after_invoke(cache, out.cache)
          /\ transaction_context' =
               [transaction_context EXCEPT ![t].accounts = out.accounts]
          /\ invoke_result' = [invoke_result EXCEPT ![t] = Some(out.result)]
          /\ compute_units_consumed' =
               [compute_units_consumed EXCEPT ![t] = out.consumed]
          /\ timings' = [timings EXCEPT ![t] = us]
          /\ accounts' = [accounts EXCEPT ![t] =
               caller_accounts_after(accounts[t], out.accounts)]
  /\ writer' = guard_after_block(writer, t)
  /\ pc' = [pc EXCEPT ![t] = "invoked"]
  /\ UNCHANGED <<mollusk, poisoned, add_failed, last_added, api, instruction,
                 checks, instruction_accounts, result>>

\* lines 210-225: the resulting accounts and the InstructionResult.
Extract(t) ==
  /\ pc[t] = "invoked"
  /\ result' = [result EXCEPT ![t] =
       Some(InstructionResult_of(compute_units_consumed[t], timings[t],
              invoke_result[t][1],
              resulting_accounts_of(transaction_context[t],
                                    instruction[t].accounts)))]
  /\ pc' = [pc EXCEPT ![t] = "returned"]
  /\ UNCHANGED <<harness, inputs, instruction_accounts, transaction_context,
                 invoke_result, compute_units_consumed, timings>>

\* process_and_validate_instruction, line 239: result.run_checks(checks).  A
\* panic unwinds the thread: a write guard it held would be dropped and the
\* lock poisoned.
RunChecks(t) ==
  /\ pc[t] = "returned"
  /\ api[t] = "process_and_validate_instruction"
  /\ IF run_checks(result[t][1], checks[t])
       THEN /\ pc' = [pc EXCEPT ![t] = "validated"]
            /\ UNCHANGED <<poisoned, writer>>
       ELSE /\ pc' = [pc EXCEPT ![t] = "panicked_checks"]
            /\ poisoned' = (poisoned \/ t \in writer)
            /\ writer' = writer \ {t}
  /\ UNCHANGED <<mollusk, cache, add_failed, last_added, inputs, locals>>

\* The call is over (it returned, or its panic was caught by the caller): the
\* thread is free to call again.
Return(t) ==
  /\ \/ pc[t] = "returned" /\ api[t] = "process_instruction"
     \/ pc[t] \in {"validated", "panicked_lock", "panicked_checks"}
  /\ pc' = [pc EXCEPT ![t] = "idle"]
  /\ api' = [api EXCEPT ![t] = "process_instruction"]
  /\ instruction' = [instruction EXCEPT ![t] = NoInstruction]
  /\ accounts' = [accounts EXCEPT ![t] = <<>>]
  /\ checks' = [checks EXCEPT ![t] = <<>>]
  /\ instruction_accounts' = [instruction_accounts EXCEPT ![t] = <<>>]
  /\ transaction_context' = [transaction_context EXCEPT ![t] = NoContext]
  /\ invoke_result' = [invoke_result EXCEPT ![t] = None]
  /\ compute_units_consumed' = [compute_units_consumed EXCEPT ![t] = 0]
  /\ timings' = [timings EXCEPT ![t] = 0]
  /\ result' = [result EXCEPT ![t] = None]
  /\ UNCHANGED harness

\* Mollusk::add_program_with_elf(program_id, loader_key, elf)
AddProgramWithElf(program_id, loader_key, elf) ==
  /\ AllIdle
  /\ writer = {}
  /\ LET r == add_program(cache, poisoned, program_id, loader_key, elf)
     IN /\ cache' = r.cache
        /\ poisoned' = r.poisoned
        /\ add_failed' = (add_failed \/ (~poisoned /\ ~r.returned))
        /\ last_added' =
             IF r.returned
               THEN [last_added EXCEPT ![program_id] =
                       ProgramCacheEntry_new(loader_key, elf)]
               ELSE last_added
  /\ UNCHANGED <<mollusk, writer, pc, inputs, locals>>

\* Mollusk::add_program(program_id, program_name): the image is read from the
\* file of that name and added under the upgradeable loader's identity.
AddProgram(program_id, elf) ==
  AddProgramWithElf(program_id, bpf_loader_upgradeable_id, elf)

\* ProgramCache::add_builtin(builtin)
AddBuiltin(builtin) ==
  /\ AllIdle
  /\ writer = {}
  /\ LET r == add_builtin(cache, poisoned, builtin)
     IN /\ cache' = r.cache
        /\ poisoned' = r.poisoned
        /\ last_added' =
             IF r.returned
               THEN [last_added EXCEPT ![builtin.program_id] =
                       Some(program_cache_entry(builtin))]
               ELSE last_added
  /\ UNCHANGED <<mollusk, writer, add_failed, pc, inputs, locals>>

\* Mollusk::warp_to_slot(slot)
WarpToSlot(slot) ==
  /\ AllIdle
  /\ mollusk' = [mollusk EXCEPT !.sysvars.slot = slot]
  /\ UNCHANGED <<cache, poisoned, writer, add_failed, last_added, pc, inputs,
                 locals>>

Next ==
  \/ \E t \in Threads, a \in Apis, metas \in MetaLists, accts \in AccountLists,
        data \in Datas, cks \in CheckLists :
       Call(t, a, metas, accts, data, cks)
  \/ \E t \in Threads : Acquire(t)
  \/ \E t \in Threads : Invoke(t)
  \/ \E t \in Threads : Extract(t)
  \/ \E t \in Threads : RunChecks(t)
  \/ \E t \in Threads : Return(t)
  \/ \E loader_key \in Loaders, elf \in Elfs :
       AddProgramWithElf(user_program_id, loader_key, elf)
  \/ \E elf \in Elfs : AddProgram(user_program_id, elf)
  \/ \E builtin \in BuiltinInputs : AddBuiltin(builtin)
  \/ \E slot \in 0..MaxSlot : WarpToSlot(slot)

Spec == Init /\ [][Next]_vars

\* The calls of a harness as constructed, on an instruction with LongMetas.
NextLong ==
  \/ \E t \in Threads, a \in Apis, cks \in CheckLists :
       Call(t, a, LongMetas, << <<KeyA, Account(2)>>, <<KeyB, Account(0)>> >>,
            "transfer 1", cks)
  \/ \E t \in Threads : Acquire(t)
  \/ \E t \in Threads : Invoke(t)
  \/ \E t \in Threads : Extract(t)
  \/ \E t \in Threads : RunChecks(t)
  \/ \E t \in Threads : Return(t)

SpecLong == Init /\ [][NextLong]_vars

\* ------------------------------------------------------------------ claims

\* The caller holds an InstructionResult of process_instruction.
HasResult(t) == pc[t] \in {"returned", "validated", "panicked_checks"}

\* C1: resulting_accounts has as many entries as the caller's account list,
\* and its i-th identity is the identity of the caller's i-th account,
\* whatever the instruction's account metas are.
C1_ResultingAccountsFollowCallerAccounts ==
  \A t \in Threads :
    HasResult(t) =>
      LET ra == result[t][1].resulting_accounts
      IN /\ Len(ra) = Len(accounts[t])
         /\ \A k \in 1..Len(ra) : ra[k][1] = accounts[t][k][1]

\* C2: after an add that failed on a malformed image the cache holds the
\* entries it held before, and process_instruction calls on the harness
\* complete: none aborts at the cache lock.
C2_FailedAddLeavesHarnessUsable ==
  add_failed =>
    /\ cache.entries = last_added
    /\ \A t \in Threads : pc[t] # "panicked_lock"

\* C3: a failure returned by the VM is the program_result of a complete
\* InstructionResult: once the VM has returned, the call does not abort, and
\* its result carries the VM's error, the consumed compute units and the
\* resulting accounts.
C3_VmFailureIsReturnedAsData ==
  \A t \in Threads :
    /\ pc[t] = "panicked_lock" => invoke_result[t] = None
    /\ invoke_result[t] # None =>
         pc[t] \in {"invoked", "returned", "validated", "panicked_checks"}
    /\ HasResult(t) =>
         /\ result[t] # None /\ invoke_result[t] # None
         /\ LET r == result[t][1]
                vm == invoke_result[t][1]
            IN /\ r.program_result.kind = (IF vm.ok THEN "Success" ELSE "Failure")
               /\ r.program_result.err = vm.err
               /\ r.compute_units_consumed = compute_units_consumed[t]
               /\ r.resulting_accounts =
                    resulting_accounts_of(transaction_context[t],
                                          instruction[t].accounts)

\* C3 witness: a call returned although the VM failed on an instruction
\* account whose index points past the account table.
C3_Witness ==
  \E t \in Threads :
    /\ pc[t] = "returned"
    /\ Len(instruction[t].accounts) > Len(accounts[t])
    /\ invoke_result[t] = Some(Err("NotEnoughAccountKeys"))
    /\ result[t][1].program_result.kind = "Failure"

\* C4: for every identity the cache holds the entry given by the most recent
\* add that returned (the entry of construction when there was none), so an
\* add changes the entry of its own identity only; and the VM of a later
\* process_instruction resolves the harness's program to that entry.
C4_LastWriteWins ==
  /\ \A k \in CacheKeys : cache.entries[k] = last_added[k]
  /\ \A t \in Threads :
       ( /\ pc[t] = "invoking"
         /\ mollusk.program_id = user_program_id
         /\ last_added[user_program_id] # None
         /\ last_added[user_program_id][1].kind = "loaded" )
       => VmResolve(cache, transaction_context[t].accounts, PROGRAM_INDICES).behaviour
            = last_added[user_program_id][1].program

\* C4 witness: the harness was built with image elf1 for P, elf2 was added
\* for P afterwards, and a call is inside the VM.
C4_Witness ==
  \E t \in Threads :
    /\ pc[t] = "invoking"
    /\ mollusk.program_id = user_program_id
    /\ last_added[user_program_id] # None
    /\ last_added[user_program_id][1].program = "elf2"

\* C5: while a call is in progress, the caller's instruction and account
\* records and the harness configuration stay what they were at the call;
\* the VM's mutations are in the context's copies only.
C5_InputsAndConfigUnchanged ==
  [][ \A t \in Threads :
        (pc[t] # "idle" /\ pc'[t] # "idle") =>
          /\ accounts'[t] = accounts[t]
          /\ instruction'[t] = instruction[t]
          /\ mollusk' = mollusk ]_vars

\* C5 witness: the VM succeeded and changed the copy of the caller's first
\* account, which the caller still holds as supplied.
C5_Witness ==
  \E t \in Threads :
    /\ pc[t] = "invoked"
    /\ invoke_result[t] = Some(Ok)
    /\ accounts[t][1][2].lamports = 2
    /\ transaction_context[t].accounts[2][2].lamports < 2

\* C7: when process_and_validate_instruction aborts on a failed check the
\* cache lock is released and not poisoned, and running the checks changes
\* neither the cache nor the configuration nor the InstructionResult that
\* process_instruction returned (which is what it returns when they pass).
C7_ValidationAbortLeavesHarnessIntact ==
  /\ [](\A t \in Threads :
          pc[t] = "panicked_checks" => (~poisoned /\ t \notin writer))
  /\ [][ \A t \in Threads :
           (pc[t] = "returned" /\ pc'[t] \in {"validated", "panicked_checks"}) =>
             /\ cache' = cache
             /\ mollusk' = mollusk
             /\ poisoned' = poisoned
             /\ result'[t] = result[t] ]_vars

\* C7 witness: a validating call aborted on a failed check.
C7_Witness ==
  \E t \in Threads :
    /\ pc[t] = "panicked_checks"
    /\ result[t][1].program_result.kind = "Failure"

\* C8: bpf_loader_upgradeable_program() returns the upgradeable loader's
\* identity (the loader identity of every entry Mollusk::add_program puts in
\* the cache, and an identity the cache holds a builtin for) with an
\* executable, native-loader-owned account whose data is that builtin's name,
\* and system_program() the system program's.
C8_BuiltinAccountHelpers ==
  /\ \A k \in CacheKeys :
       (cache.entries[k] # None /\ cache.entries[k][1].kind = "loaded") =>
         cache.entries[k][1].loader = bpf_loader_upgradeable_program[1]
  /\ cache.entries[bpf_loader_upgradeable_program[1]] # None
  /\ bpf_loader_upgradeable_program[1] = bpf_loader_upgradeable_id
  /\ bpf_loader_upgradeable_program[2].data = "solana_bpf_loader_upgradeable_program"
  /\ bpf_loader_upgradeable_program[2].owner = native_loader_id
  /\ bpf_loader_upgradeable_program[2].executable
  /\ system_program[1] = system_program_id
  /\ system_program[2].data = "system_program"
  /\ system_program[2].owner = native_loader_id
  /\ system_program[2].executable

\* C9: in the execution context, table index 0 is the harness's
\* (program_id, program_account) and index k+1 the caller's k-th account; the
\* instruction account of position i has index_in_callee = index_in_caller = i,
\* index_in_transaction = i + 1 and the meta's flags; the program index is 0.
C9_ContextLayout ==
  \A t \in Threads :
    pc[t] \in {"built", "invoking"} =>
      LET table == transaction_context[t].accounts
          metas == instruction[t].accounts
          ias == instruction_accounts[t]
      IN /\ Len(table) = Len(accounts[t]) + 1
         /\ At0(table, 0) = <<mollusk.program_id, mollusk.program_account>>
         /\ \A k \in 0..(Len(accounts[t]) - 1) :
              At0(table, k + 1) = At0(accounts[t], k)
         /\ Len(ias) = Len(metas)
         /\ \A i \in 0..(Len(metas) - 1) :
              /\ At0(ias, i).index_in_callee = i
              /\ At0(ias, i).index_in_caller = i
              /\ At0(ias, i).index_in_transaction = i + 1
              /\ At0(ias, i).is_signer = At0(metas, i).is_signer
              /\ At0(ias, i).is_writable = At0(metas, i).is_writable
         /\ PROGRAM_INDICES = <<0>>

\* C10: of calls in progress together, at most one is inside the VM
\* invocation, none holds the lock once its invocation is over, and each one
\* that waits for the lock gets it and returns: none aborts at the lock.
C10_ExclusiveInvocationAndReturn ==
  /\ Cardinality({t \in Threads : pc[t] = "invoking"}) <= 1
  /\ \A t \in Threads : pc[t] # "invoking" => t \notin writer
  /\ \A t, u \in Threads :
       (t # u /\ pc[u] # "idle") => pc[t] # "panicked_lock"

====
